---- MODULE Spec2Model ----
(***************************************************************************)
(* Model of the story pipeline's core: EditorAgent (evaluate_draft,        *)
(* revise_draft, iterative_improvement), CausalityAgent                    *)
(* (validate_causal_consistency, propagate_causality), ScribeAgent         *)
(* (write_scene, write_draft), ArchitectAgent (plan_story, refine_outline) *)
(* of backend/app/services, and generate_story of                          *)
(* backend/app/api/v1/stories.py.                                          *)
(*                                                                         *)
(* Scores are integers in hundredths (0.85 is 85).  Texts are small        *)
(* naturals.  The text generator (the LLM chain) is the environment: each  *)
(* call to it either raises or returns a text, chosen nondeterministically.*)
(***************************************************************************)
EXTENDS Integers, Sequences, FiniteSets, TLC

\* ------------------------------------------------------------------ bounds
MaxIter == 3        \* largest max_iterations passed to iterative_improvement
MaxText == 3        \* number of distinct draft texts
MaxEvents == 2      \* longest story_events list given to the validator
MaxIssues == 12     \* largest issue count the score expression is tabulated for
MaxScenes == 16     \* largest number of key_scenes of an outline given to the scribe
MaxStoryScenes == 2 \* largest number of key_scenes of a planned outline
MaxCalls == 3       \* largest number of propagate_causality calls
MaxBibles == 2      \* largest number of story bibles the caller builds itself
MaxRequests == 3    \* number of generate_story requests that get a story_id
MaxClock == 5       \* last clock tick

\* --------------------------------------------------------- program constants
quality_threshold == 85

Texts == 1 .. MaxText
NoText == 0

\* ----------------------------------------------------------- QualityMetrics
SubScoreFields ==
    {"coherence_score", "engagement_score", "character_consistency",
     "pacing_score", "language_quality", "causal_integrity"}

MetricKeys == SubScoreFields \cup {"overall_score", "issues_found", "suggestions"}

QualityMetrics(sub, overall, issues, suggestions) ==
    [coherence_score |-> sub, engagement_score |-> sub,
     character_consistency |-> sub, pacing_score |-> sub,
     language_quality |-> sub, causal_integrity |-> sub,
     overall_score |-> overall, issues_found |-> issues,
     suggestions |-> suggestions]

NoMetrics == QualityMetrics(0, 0, <<>>, <<>>)

\* ------------------------------------------- the text generator's responses
\* What chain.invoke gives an evaluate_draft call: it raises, or returns a
\* content that json.loads rejects, or a JSON object with some of the keys.
EvalResponse(raises, json_ok, keys, sub, overall) ==
    [raises |-> raises, json_ok |-> json_ok, keys |-> keys,
     sub |-> sub, overall |-> overall,
     issues |-> <<"Pacing drags">>, suggestions |-> <<"Tighten the middle">>]

ProviderError == EvalResponse(TRUE, FALSE, {}, 0, 0)
NotJSON == EvalResponse(FALSE, FALSE, {}, 0, 0)
MissingField == EvalResponse(FALSE, TRUE, MetricKeys \ {"overall_score"}, 90, 90)

LLMScores == {60, 85, 90}

\* json.loads and QualityMetrics(**metrics_dict) accept any numbers: an
\* overall_score that is not the one the sub-scores suggest, and scores
\* outside 0-1.
Overrated == EvalResponse(FALSE, TRUE, MetricKeys, 60, 90)
OutOfRange == EvalResponse(FALSE, TRUE, MetricKeys, 120, 150)

EvalResponses ==
    {ProviderError, NotJSON, MissingField, Overrated, OutOfRange}
        \cup {EvalResponse(FALSE, TRUE, MetricKeys, s, s) : s \in LLMScores}

\* What chain.invoke gives a revise_draft call: it raises or returns a text.
ReviseResponses ==
    {[raises |-> TRUE, text |-> NoText]}
        \cup {[raises |-> FALSE, text |-> t] : t \in Texts}

\* ------------------------------------------------------------ evaluate_draft
FallbackMetrics ==
    QualityMetrics(50, 50, <<"Evaluation failed">>, <<"Manual review required">>)

ParsedMetrics(resp) ==
    QualityMetrics(resp.sub, resp.overall, resp.issues, resp.suggestions)

\* An outcome is what the caller sees: an exception (raised) or a value.
\* Variant: the parsed object is used without requiring every field.
evaluate_draft_NoKeyCheck(resp) ==
    IF resp.raises \/ ~resp.json_ok
    THEN [raised |-> FALSE, value |-> FallbackMetrics]
    ELSE [raised |-> FALSE, value |-> ParsedMetrics(resp)]

evaluate_draft(resp) ==
    IF resp.raises \/ ~resp.json_ok \/ ~(MetricKeys \subseteq resp.keys)
    THEN [raised |-> FALSE, value |-> FallbackMetrics]
    ELSE [raised |-> FALSE, value |-> ParsedMetrics(resp)]

\* -------------------------------------------------------------- revise_draft
\* Variant: the except branch returns an empty text instead of the draft.
revise_draft_LosesDraft(draft_text, resp) ==
    IF resp.raises
    THEN [raised |-> FALSE, value |-> NoText]
    ELSE [raised |-> FALSE, value |-> resp.text]

\* Variant: the draft is returned instead of revised_content.
revise_draft_KeepsDraft(draft_text, resp) ==
    [raised |-> FALSE, value |-> draft_text]

revise_draft(draft_text, resp) ==
    IF resp.raises
    THEN [raised |-> FALSE, value |-> draft_text]
    ELSE [raised |-> FALSE, value |-> resp.text]

\* ------------------------------------------------- story_events (causal links)
\* An entry of story_events.  kind "dict" is a link record: id, and the key
\* "causes" (present iff has_causes) holding the list of dependency references.
\* kind "str" is a plain string (has_causes: it contains the substring
\* "causes"), kind "int" a number: entries that are not link records.
\* kind "dict_num" is a record whose "causes" value is a number.
\* mentions: the ids of the links whose effect the entry's cause text refers to.
LinkIds == {"e1", "e2"}
RefIds == LinkIds \cup {"zz"}

RECURSIVE SeqsUpTo(_, _)
SeqsUpTo(S, n) ==
    IF n = 0 THEN {<<>>}
    ELSE LET shorter == SeqsUpTo(S, n - 1) IN
         shorter \cup {Append(q, x) : q \in shorter, x \in S}

\* The "causes" lists: none, one or two references (a repeated one included).
CauseLists ==
    {<<>>} \cup {<<a>> : a \in RefIds} \cup {<<a, b>> : a, b \in RefIds}

\* Links whose cause text refers to the effect of e1, with and without the
\* dependency on e1 recorded.
MentioningEvents ==
    {[kind |-> "dict", id |-> "e2", has_causes |-> TRUE, causes |-> c,
      mentions |-> {"e1"}] : c \in {<<>>, <<"e1">>}}

LinkEvents ==
    {[kind |-> "dict", id |-> i, has_causes |-> FALSE, causes |-> <<>>,
      mentions |-> {}] : i \in LinkIds}
        \cup {[kind |-> "dict", id |-> i, has_causes |-> TRUE, causes |-> c,
                mentions |-> {}] : i \in LinkIds, c \in CauseLists}
        \cup MentioningEvents

MalformedEvents ==
    {[kind |-> "str", id |-> "", has_causes |-> h, causes |-> <<>>,
      mentions |-> {}] : h \in BOOLEAN}
        \cup {[kind |-> "int", id |-> "", has_causes |-> FALSE, causes |-> <<>>,
                mentions |-> {}]}
        \cup {[kind |-> "dict_num", id |-> "e1", has_causes |-> TRUE, causes |-> <<>>,
                mentions |-> {}]}

Events == LinkEvents \cup MalformedEvents

EventLists == SeqsUpTo(Events, MaxEvents)

\* ------------------------------------------------------------ CausalityAgent
Issue(msg, cause, effect) == [msg |-> msg, cause |-> cause, effect |-> effect]

InconsistentCausality == "Inconsistent causality"
CircularDependencies == "Circular causal dependencies detected"
ValidationFailed == "Validation failed"
ConsiderAddingLink == "Consider adding causal link"

\* Variant: the check rejects every cause.
_validate_cause_effect_Rejects(cause, effect) == FALSE

_validate_cause_effect(cause, effect) == TRUE

_detect_cycles(events) == FALSE

_find_missing_links(events) == <<>>

\* '"causes" in event', 'event["causes"]' and 'for cause in ...' raise
\* TypeError on these entries.
EntryRaises(event) ==
    \/ event.kind = "int"
    \/ event.kind = "str" /\ event.has_causes
    \/ event.kind = "dict_num"

\* "for cause in event['causes']": one issue per cause that fails validation.
RECURSIVE CauseIssues(_, _)
CauseIssues(causes, event) ==
    IF causes = <<>> THEN <<>>
    ELSE (IF ~_validate_cause_effect(Head(causes), event)
          THEN <<Issue(InconsistentCausality, Head(causes), event.id)>>
          ELSE <<>>) \o CauseIssues(Tail(causes), event)

\* "for i, event in enumerate(story_events)"
RECURSIVE EventIssues(_)
EventIssues(events) ==
    IF events = <<>> THEN <<>>
    ELSE (IF Head(events).has_causes
          THEN CauseIssues(Head(events).causes, Head(events))
          ELSE <<>>) \o EventIssues(Tail(events))

Max(a, b) == IF a >= b THEN a ELSE b

\* Variant: the score is not capped at zero.
ConfidenceScore_Unclamped(n) == 10 - n

\* "max(0, 1 - len(issues) * 0.1)", in tenths
ConfidenceScore(n) == Max(0, 10 - n)

\* Variant: the failure result carries no issue.
FailureResult_NoIssue ==
    [is_consistent |-> FALSE, issues |-> <<>>,
     suggestions |-> <<>>, confidence_score |-> 0]

\* The result of the "except Exception" branch.
FailureResult ==
    [is_consistent |-> FALSE, issues |-> <<Issue(ValidationFailed, "", "")>>,
     suggestions |-> <<>>, confidence_score |-> 0]

validate_causal_consistency(events) ==
    IF \E i \in DOMAIN events : EntryRaises(events[i])
    THEN FailureResult
    ELSE LET loop_issues == EventIssues(events)
             issues == IF _detect_cycles(events)
                       THEN Append(loop_issues, Issue(CircularDependencies, "", ""))
                       ELSE loop_issues
             missing_links == _find_missing_links(events)
             suggestions == [i \in DOMAIN missing_links |->
                                [msg |-> ConsiderAddingLink, link |-> missing_links[i]]]
         IN  [is_consistent |-> Len(issues) = 0, issues |-> issues,
              suggestions |-> suggestions,
              confidence_score |-> ConfidenceScore(Len(issues))]

\* Variant: the handler re-raises, as the other agents' handlers do.
ValidationPropagates_Reraise(events) ==
    \E i \in DOMAIN events : EntryRaises(events[i])

\* Whether an exception leaves validate_causal_consistency: the whole body is
\* inside "try", and the handler returns.
ValidationPropagates(events) == FALSE

VARIABLES
    vpc,           \* position of the validate_causal_consistency call
    story_events,  \* argument
    causal_check   \* the returned result

causalVars == <<vpc, story_events, causal_check>>

NoCheck ==
    [is_consistent |-> TRUE, issues |-> <<>>, suggestions |-> <<>>,
     confidence_score |-> 0]

CausalInit ==
    /\ vpc = "idle"
    /\ story_events = <<>>
    /\ causal_check = NoCheck

\* --------------------------------------------------------------- ScribeAgent
\* An outline is seen through len(outline['key_scenes']).  A scene text is an
\* opaque token: the k-th call of the generator returns the text k, or raises.
Min(a, b) == IF a <= b THEN a ELSE b

length_targets == [short_story |-> 15, novella |-> 30, novel |-> 60]

\* The values of target_length tried: the three documented ones and another.
TargetLengths == {"short_story", "novella", "novel", "epic"}

\* "length_targets.get(target_length, 15)"
TargetScenes(target_length) ==
    IF target_length \in DOMAIN length_targets
    THEN length_targets[target_length]
    ELSE 15

\* Variant: the target is ignored.
NumScenes_IgnoresTarget(n, target_scenes) == n

\* "num_scenes = min(len(key_scenes), target_scenes)"
NumScenes(n, target_scenes) == Min(n, target_scenes)

SceneResponses(k) ==
    {[raises |-> TRUE, text |-> NoText], [raises |-> FALSE, text |-> k]}

\* Variant: every previous scene is put into the prompt.
Context_All(previous_scenes) == previous_scenes

\* "previous_scenes[-2:] if previous_scenes else 'None'"
Context(previous_scenes) ==
    IF Len(previous_scenes) <= 2 THEN previous_scenes
    ELSE SubSeq(previous_scenes, Len(previous_scenes) - 1, Len(previous_scenes))

SceneOutcome(raised, error, called, scene, context, value) ==
    [raised |-> raised, error |-> error, called |-> called, scene |-> scene,
     context |-> context, value |-> value]

\* Variant: a failed scene is logged and an empty text returned.
write_scene_Swallows(n, scene_index, previous_scenes, resp) ==
    IF scene_index >= n
    THEN SceneOutcome(FALSE, "", FALSE, -1, <<>>, NoText)
    ELSE IF scene_index < 0 - n
    THEN SceneOutcome(FALSE, "", FALSE, -1, <<>>, NoText)
    ELSE LET scene == IF scene_index >= 0 THEN scene_index ELSE n + scene_index IN
         SceneOutcome(FALSE, "", TRUE, scene, Context(previous_scenes),
                      IF resp.raises THEN NoText ELSE resp.text)

\* write_scene for an outline of n key_scenes.  scene: the element of
\* key_scenes that "key_scenes[scene_index]" selects (a negative index counts
\* from the end of the list, and below -n raises IndexError).
write_scene(n, scene_index, previous_scenes, resp) ==
    IF scene_index >= n
    THEN SceneOutcome(TRUE, "ValueError", FALSE, -1, <<>>, NoText)
    ELSE IF scene_index < 0 - n
    THEN SceneOutcome(TRUE, "IndexError", FALSE, -1, <<>>, NoText)
    ELSE LET scene == IF scene_index >= 0 THEN scene_index ELSE n + scene_index IN
         IF resp.raises
         THEN SceneOutcome(TRUE, "GenerationError", TRUE, scene,
                           Context(previous_scenes), NoText)
         ELSE SceneOutcome(FALSE, "", TRUE, scene, Context(previous_scenes),
                           resp.text)

\* "StoryDraft(..., content=complete_story, scenes=written_scenes, ...)"
StoryDraft(scenes, texts) == [returned |-> TRUE, scenes |-> scenes, content |-> texts]

NoDraft == [returned |-> FALSE, scenes |-> <<>>, content |-> <<>>]

NoSceneCall == [scene_index |-> 0, n |-> 0, outcome |-> SceneOutcome(FALSE, "", FALSE, -1, <<>>, NoText)]

\* The previous_scenes arguments tried in a direct write_scene call.
PreviousChoices == {[j \in 1 .. k |-> j] : k \in 0 .. 3}

VARIABLES
    spc,              \* position of write_draft / write_scene
    num_key_scenes,   \* len(outline['key_scenes'])
    target_length,    \* argument of write_draft
    num_scenes,       \* local of write_draft
    scene_i,          \* loop variable "i" of write_draft
    written_scenes,   \* local of write_draft
    full_content,     \* local of write_draft
    draft,            \* the returned StoryDraft
    llmCalls,         \* history: number of generator calls made by the scribe
    sceneCall,        \* history: the latest write_scene call and its outcome
    sceneOrder,       \* history: the scene_index of each scene written so far
    failedAt          \* history: the index whose write failed in write_draft, or -1

scribeVars ==
    <<spc, num_key_scenes, target_length, num_scenes, scene_i, written_scenes,
      full_content, draft, llmCalls, sceneCall, sceneOrder, failedAt>>

ScribeInit ==
    /\ spc = "idle"
    /\ num_key_scenes = 0
    /\ target_length = "short_story"
    /\ num_scenes = 0
    /\ scene_i = 0
    /\ written_scenes = <<>>
    /\ full_content = <<>>
    /\ draft = NoDraft
    /\ llmCalls = 0
    /\ sceneCall = NoSceneCall
    /\ sceneOrder = <<>>
    /\ failedAt = -1

\* ------------------------------------------------------------ ArchitectAgent
\* A StoryOutline is seen through len(key_scenes) and causal_chains.
Outline(n, chains) == [key_scenes |-> n, causal_chains |-> chains]

NoOutline == Outline(0, <<>>)

Link(id, causes) ==
    [kind |-> "dict", id |-> id, has_causes |-> TRUE, causes |-> causes,
     mentions |-> {}]

\* The causal_chains lists tried: none, two sound links, a link whose
\* "causes" is a number.
ChainChoices ==
    {<<>>,
     <<Link("e1", <<>>), Link("e2", <<"e1">>)>>,
     <<[kind |-> "dict_num", id |-> "e1", has_causes |-> TRUE, causes |-> <<>>,
        mentions |-> {}]>>}

Outlines == {Outline(n, c) : n \in 0 .. MaxStoryScenes, c \in ChainChoices}

\* What "prompt_template | llm | output_parser" gives: it raises (provider
\* error), or the output is no valid StoryOutline, or it is the outline.
PlanResponses ==
    {[raises |-> TRUE, valid |-> FALSE, outline |-> NoOutline],
     [raises |-> FALSE, valid |-> FALSE, outline |-> NoOutline]}
        \cup {[raises |-> FALSE, valid |-> TRUE, outline |-> o] : o \in Outlines}

Prompts == {"", "a child learns to swim"}

Feedbacks == {"make the ending happier", "the causal chain of scene 2 is broken"}

ConcernsCausality(feedback) == feedback = "the causal chain of scene 2 is broken"

PlanOutcome(raised, called, value) ==
    [raised |-> raised, called |-> called, value |-> value]

\* Variant: a failed planning call yields an empty outline instead of raising.
plan_story_DefaultOutline(prompt, resp) ==
    IF resp.raises \/ ~resp.valid
    THEN PlanOutcome(FALSE, TRUE, NoOutline)
    ELSE PlanOutcome(FALSE, TRUE, resp.outline)

\* plan_story: the prompt goes to the generator as it is.
plan_story(prompt, resp) ==
    IF resp.raises \/ ~resp.valid
    THEN PlanOutcome(TRUE, TRUE, NoOutline)
    ELSE PlanOutcome(FALSE, TRUE, resp.outline)

\* Variant: causal_chains of the input are kept unless the feedback is about
\* causality.
refine_outline_KeepsChains(outline, feedback, resp) ==
    IF resp.raises \/ ~resp.valid
    THEN PlanOutcome(TRUE, TRUE, NoOutline)
    ELSE PlanOutcome(FALSE, TRUE,
                     IF ConcernsCausality(feedback) THEN resp.outline
                     ELSE Outline(resp.outline.key_scenes, outline.causal_chains))

\* refine_outline: the result is the outline parsed from the generator's output.
refine_outline(outline, feedback, resp) ==
    IF resp.raises \/ ~resp.valid
    THEN PlanOutcome(TRUE, TRUE, NoOutline)
    ELSE PlanOutcome(FALSE, TRUE, resp.outline)

VARIABLES
    apc,          \* position of the refine_outline call
    arch_outline, \* argument "outline"
    feedback,     \* argument "feedback"
    archLLM,      \* history: the generator's response
    refined       \* the returned outline

architectVars == <<apc, arch_outline, feedback, archLLM, refined>>

ArchitectInit ==
    /\ apc = "idle"
    /\ arch_outline = NoOutline
    /\ feedback = ""
    /\ archLLM = [raises |-> FALSE, valid |-> FALSE, outline |-> NoOutline]
    /\ refined = NoOutline

\* ------------------------------------------------------------- generate_story
\* "max_iterations: int = 3", the default generate_story runs with
DefaultMaxIterations == 3

\* The request.length values tried.
StoryLengths == {"short_story", "epic"}

NoResponse ==
    [status |-> 0, content |-> NoText,
     quality_metrics |-> [overall_score |-> 0, causal_integrity |-> 0,
                          issues |-> <<>>, suggestions |-> <<>>]]

\* "raise HTTPException(status_code=500, ...)"
ErrorResponse ==
    [status |-> 500, content |-> NoText,
     quality_metrics |-> [overall_score |-> 0, causal_integrity |-> 0,
                          issues |-> <<>>, suggestions |-> <<>>]]

\* "StoryResponse(..., content=final_content, quality_metrics={...})";
\* confidence_score, kept in tenths, is written in hundredths like the scores.
StoryResponse(final_content, final_metrics, check) ==
    [status |-> 200, content |-> final_content,
     quality_metrics |-> [overall_score |-> final_metrics.overall_score,
                          causal_integrity |-> 10 * check.confidence_score,
                          issues |-> final_metrics.issues_found,
                          suggestions |-> final_metrics.suggestions]]

\* "StoryResponse(**mock_story)": the fixed mock story, "overall_score": 8.5
\* and "causal_integrity": 0.85.
MockResponse ==
    [status |-> 200, content |-> 1,
     quality_metrics |-> [overall_score |-> 850, causal_integrity |-> 85,
                          issues |-> <<"Mock data - not analyzed">>,
                          suggestions |-> <<"Configure API keys for real AI analysis">>]]

\* draft.content, the joined scene texts, as a text of the editor
ContentText(d) == 1

VARIABLES
    USE_REAL_AGENTS, \* module global, fixed when the module is imported
    gpc,        \* position of generate_story
    request,    \* the StoryRequest
    outline,    \* local "outline"
    planCalls,  \* history: generator calls made by plan_story
    planLLM,    \* history: the generator's response to plan_story
    response    \* the StoryResponse, or the 500 failure

storyVars == <<USE_REAL_AGENTS, gpc, request, outline, planCalls, planLLM, response>>

StoryInit ==
    /\ USE_REAL_AGENTS \in BOOLEAN
    /\ gpc = "idle"
    /\ request = [prompt |-> "", length |-> "short_story"]
    /\ outline = NoOutline
    /\ planCalls = 0
    /\ planLLM = [raises |-> FALSE, valid |-> FALSE, outline |-> NoOutline]
    /\ response = NoResponse

\* -------------------------------------------------------- propagate_causality
\* A story bible is a dict whose "events" and "relationships" values are list
\* objects.  heap holds the list objects; a bible holds references to them
\* (NoRef: the key is absent).  "story_bible.copy()" copies the dict and keeps
\* the references.
NoRef == 0

NoBible == [events |-> NoRef, relationships |-> NoRef]

\* f"event_{n}"
CausalId(n) == <<"event_", n>>

\* an event dict without the key "causal_id"
NoId == <<>>

\* The new_event arguments tried: without a "causal_id" key, and with one.
NewEvents ==
    {[description |-> "the bridge burns", causal_id |-> NoId],
     [description |-> "the hero leaves", causal_id |-> CausalId(0)]}

\* An event that was not recorded by propagate_causality (it has no causal_id).
PlannedEvent == [description |-> "planned", timestamp |-> 0, causal_id |-> NoId]

\* The bibles a caller builds: {}, {"events": [], "relationships": []} and
\* {"events": [<planned event>]}.
BibleKinds == {"empty", "lists", "planned"}

\* Variant: the keys of new_event are written last, so its causal_id wins.
EventRecord_CallerIdWins(new_event, n, now) ==
    [description |-> new_event.description, timestamp |-> now,
     causal_id |-> IF new_event.causal_id # NoId THEN new_event.causal_id
                   ELSE CausalId(n)]

\* "{**new_event, 'timestamp': ..., 'causal_id': f'event_{len(...)}'}": n is
\* the length of the events list before the append.
EventRecord(new_event, n, now) ==
    [description |-> new_event.description, timestamp |-> now,
     causal_id |-> CausalId(n)]

\* "_propagate_effects" returns an empty list
_propagate_effects(bible, new_event) == <<>>

\* propagate_causality on heap h: the heap after the call and the returned
\* bible.  A list is created for a missing key, in the copy only.
propagate_causality(h, story_bible, new_event, now) ==
    LET has_events == story_bible.events # NoRef
        h1 == IF has_events THEN h ELSE Append(h, <<>>)
        events_ref == IF has_events THEN story_bible.events ELSE Len(h1)
        event == EventRecord(new_event, Len(h1[events_ref]), now)
        h2 == [h1 EXCEPT ![events_ref] = Append(@, event)]
        has_rel == story_bible.relationships # NoRef
        h3 == IF has_rel THEN h2 ELSE Append(h2, <<>>)
        rel_ref == IF has_rel THEN story_bible.relationships ELSE Len(h3)
        updated_bible == [events |-> events_ref, relationships |-> rel_ref]
        h4 == [h3 EXCEPT ![rel_ref] = @ \o _propagate_effects(updated_bible, new_event)]
    IN  [heap |-> h4, bible |-> updated_bible]

\* the list a bible holds under a key, <<>> when the key is absent
ListOf(h, ref) == IF ref = NoRef THEN <<>> ELSE h[ref]

VARIABLES
    bpc,            \* position of the propagate_causality caller
    heap,           \* the list objects
    held,           \* the bibles the caller holds: built ones and returned ones
    bibleCalls,     \* number of propagate_causality calls made
    passed,         \* history: the story_bible of the latest call
    before_events,  \* history: its events list before the call
    before_rel,     \* history: its relationships list before the call
    returned_bible  \* the bible the latest call returned

bibleVars ==
    <<bpc, heap, held, bibleCalls, passed, before_events, before_rel, returned_bible>>

BibleInit ==
    /\ bpc = "idle"
    /\ heap = <<>>
    /\ held = <<>>
    /\ bibleCalls = 0
    /\ passed = NoBible
    /\ before_events = <<>>
    /\ before_rel = <<>>
    /\ returned_bible = NoBible

\* ------------------------------------------------------------------ story_id
\* The clock counts ticks of half a second; strftime('%Y%m%d_%H%M%S') keeps
\* whole seconds.
TicksPerSecond == 2

strftime(now) == now \div TicksPerSecond

\* f"story_{...}" on the real-agent path, f"mock_story_{...}" on the mock path
story_id(real, now) ==
    IF real THEN <<"story_", strftime(now)>> ELSE <<"mock_story_", strftime(now)>>

Requests == 1 .. MaxRequests

NoStoryId == <<>>

VARIABLES
    clock,     \* datetime.now(), in ticks
    issued     \* the story_id each request was answered with, or NoStoryId

idVars == <<clock, issued>>

IdInit ==
    /\ clock = 0
    /\ issued = [r \in Requests |-> NoStoryId]

otherVars == <<bibleVars, idVars>>

\* ----------------------------------------------------- iterative_improvement
VARIABLES
    pc,               \* position of iterative_improvement
    draft_content,    \* argument
    max_iterations,   \* argument
    current_content,  \* local
    iteration,        \* loop variable of "for iteration in range(max_iterations)"
    metrics,          \* local, the in-loop evaluation
    result,           \* the returned (content, metrics) tuple
    scores,           \* history: overall_score of each in-loop evaluation
    evalCalls,        \* history: number of evaluate_draft calls
    reviseCalls,      \* history: number of revise_draft calls
    evalLLM,          \* history: the generator's response to the latest evaluate_draft
    reviseLLM,        \* history: the generator's response to the latest revise_draft
    lastEval,         \* history: argument, value of the latest evaluate_draft call
    lastRevise,       \* history: argument, value of the latest revise_draft call
    revisedSinceEval  \* history: a revise_draft call happened after the latest evaluate_draft

nonEditorVars == <<causalVars, scribeVars, architectVars, storyVars, otherVars>>

editorVars ==
    <<pc, draft_content, max_iterations, current_content, iteration, metrics,
      result, scores, evalCalls, reviseCalls, evalLLM, reviseLLM, lastEval,
      lastRevise, revisedSinceEval>>

nonScribeVars == <<editorVars, causalVars, architectVars, storyVars, otherVars>>

\* Variants: one pass too many, one pass too few.
LoopContinues_OneMore(it, max) == it <= max

LoopContinues_OneLess(it, max) == it < max - 1

\* range(max_iterations) still has an element for the loop variable value it
LoopContinues(it, max) == it < max

\* Variant: a score equal to the threshold does not pass.
ThresholdMet_Strict(m) == m.overall_score > quality_threshold

\* "if metrics.overall_score >= self.quality_threshold: break"
ThresholdMet(m) == m.overall_score >= quality_threshold

\* Variant: the in-loop metrics are returned.
Returned_LoopMetrics(content, loop_metrics, final_metrics) ==
    [content |-> content, metrics |-> loop_metrics]

\* "return current_content, final_metrics"
Returned(content, loop_metrics, final_metrics) ==
    [content |-> content, metrics |-> final_metrics]

NoResult == [content |-> NoText, metrics |-> NoMetrics]

EditorInit ==
    /\ pc = "idle"
    /\ draft_content = NoText
    /\ max_iterations = 0
    /\ current_content = NoText
    /\ iteration = 0
    /\ metrics = NoMetrics
    /\ result = NoResult
    /\ scores = <<>>
    /\ evalCalls = 0
    /\ reviseCalls = 0
    /\ evalLLM = NotJSON
    /\ reviseLLM = [raises |-> FALSE, text |-> NoText]
    /\ lastEval = [content |-> NoText, value |-> NoMetrics]
    /\ lastRevise = [content |-> NoText, value |-> NoText]
    /\ revisedSinceEval = FALSE

\* Entry: current_content = draft_content, then the loop header.
CallWith(d, n) ==
    /\ pc = "idle"
    /\ draft_content' = d
    /\ max_iterations' = n
    /\ current_content' = d
    /\ iteration' = 0
    /\ pc' = IF LoopContinues(0, n) THEN "evaluating" ELSE "final"
    /\ UNCHANGED <<metrics, result, scores, evalCalls, reviseCalls, evalLLM,
                   reviseLLM, lastEval, lastRevise, revisedSinceEval, nonEditorVars>>

Call == \E d \in Texts, n \in 0 .. MaxIter : CallWith(d, n)

\* Loop body, first half: evaluate the current draft and test the threshold.
LoopEvaluate ==
    /\ pc = "evaluating"
    /\ \E resp \in EvalResponses :
        LET out == evaluate_draft(resp) IN
        /\ evalLLM' = resp
        /\ evalCalls' = evalCalls + 1
        /\ revisedSinceEval' = FALSE
        /\ IF out.raised
           THEN /\ pc' = "error"
                /\ UNCHANGED <<metrics, scores, lastEval>>
           ELSE /\ metrics' = out.value
                /\ scores' = Append(scores, out.value.overall_score)
                /\ lastEval' = [content |-> current_content, value |-> out.value]
                /\ pc' = IF ThresholdMet(out.value) THEN "final" ELSE "revising"
    /\ UNCHANGED <<draft_content, max_iterations, current_content, iteration,
                   result, reviseCalls, reviseLLM, lastRevise, nonEditorVars>>

\* Loop body, second half: revise, then the loop header again.
LoopRevise ==
    /\ pc = "revising"
    /\ \E resp \in ReviseResponses :
        LET out == revise_draft(current_content, resp) IN
        /\ reviseLLM' = resp
        /\ reviseCalls' = reviseCalls + 1
        /\ revisedSinceEval' = TRUE
        /\ IF out.raised
           THEN /\ pc' = "error"
                /\ UNCHANGED <<current_content, iteration, lastRevise>>
           ELSE /\ current_content' = out.value
                /\ lastRevise' = [content |-> current_content, value |-> out.value]
                /\ iteration' = iteration + 1
                /\ pc' = IF LoopContinues(iteration + 1, max_iterations)
                         THEN "evaluating" ELSE "final"
    /\ UNCHANGED <<draft_content, max_iterations, metrics, result, scores,
                   evalCalls, evalLLM, lastEval, nonEditorVars>>

\* After the loop: the final evaluation and the return.
FinalEvaluate ==
    /\ pc = "final"
    /\ \E resp \in EvalResponses :
        LET out == evaluate_draft(resp) IN
        /\ evalLLM' = resp
        /\ evalCalls' = evalCalls + 1
        /\ revisedSinceEval' = FALSE
        /\ IF out.raised
           THEN /\ pc' = "error"
                /\ UNCHANGED <<result, lastEval>>
           ELSE /\ lastEval' = [content |-> current_content, value |-> out.value]
                /\ result' = Returned(current_content, metrics, out.value)
                /\ pc' = "done"
    /\ UNCHANGED <<draft_content, max_iterations, current_content, iteration,
                   metrics, scores, reviseCalls, reviseLLM, lastRevise, nonEditorVars>>

vars == <<editorVars, causalVars, scribeVars, architectVars, storyVars, otherVars>>

Init ==
    /\ EditorInit /\ CausalInit /\ ScribeInit /\ ArchitectInit /\ StoryInit
    /\ BibleInit /\ IdInit

\* ---------------------------------------- specification of the improvement loop
Next == Call \/ LoopEvaluate \/ LoopRevise \/ FinalEvaluate

Spec == Init /\ [][Next]_vars

\* The interpreter runs the loop to its end: no step of it can be postponed forever.
FairSpec == Spec /\ WF_vars(Next)

\* ------------------------------------------ specification of causal validation
ValidateCausal ==
    /\ vpc = "idle"
    /\ \E events \in EventLists :
        /\ story_events' = events
        /\ IF ValidationPropagates(events)
           THEN /\ vpc' = "raised"
                /\ UNCHANGED causal_check
           ELSE /\ vpc' = "done"
                /\ causal_check' = validate_causal_consistency(events)
    /\ UNCHANGED <<editorVars, scribeVars, architectVars, storyVars, otherVars>>

NextCausal == ValidateCausal

SpecCausal == Init /\ [][NextCausal]_vars

\* ------------------------------------------------- specification of the scribe
\* A direct call of write_scene.
WriteSceneCall ==
    /\ spc = "idle"
    /\ \E n \in 0 .. MaxScenes, idx \in (0 - MaxScenes - 1) .. (MaxScenes + 1),
          prev \in PreviousChoices, resp \in SceneResponses(llmCalls + 1) :
        LET out == write_scene(n, idx, prev, resp) IN
        /\ num_key_scenes' = n
        /\ sceneCall' = [scene_index |-> idx, n |-> n, outcome |-> out]
        /\ llmCalls' = IF out.called THEN llmCalls + 1 ELSE llmCalls
        /\ spc' = IF out.raised THEN "scene_raised" ELSE "scene_returned"
    /\ UNCHANGED <<target_length, num_scenes, scene_i, written_scenes,
                   full_content, draft, sceneOrder, failedAt>>
    /\ UNCHANGED nonScribeVars

\* Entry of write_draft up to the loop header; with no scene to write the
\* draft is built at once.
WriteDraftCallWith(n, t) ==
    /\ spc = "idle"
    /\ num_key_scenes' = n
    /\ target_length' = t
    /\ num_scenes' = NumScenes(n, TargetScenes(t))
    /\ scene_i' = 0
    /\ written_scenes' = <<>>
    /\ full_content' = <<>>
    /\ IF NumScenes(n, TargetScenes(t)) > 0
       THEN /\ spc' = "writing"
            /\ UNCHANGED draft
       ELSE /\ spc' = "returned"
            /\ draft' = StoryDraft(<<>>, <<>>)
    /\ UNCHANGED <<llmCalls, sceneCall, sceneOrder, failedAt>>
    /\ UNCHANGED nonScribeVars

WriteDraftCall ==
    \E n \in 0 .. MaxScenes, t \in TargetLengths : WriteDraftCallWith(n, t)

\* One pass of "for i in range(num_scenes)"; after the last one the draft is
\* built and returned.  An exception of write_scene leaves write_draft.
WriteDraftScene ==
    /\ spc = "writing"
    /\ \E resp \in SceneResponses(llmCalls + 1) :
        LET out == write_scene(num_key_scenes, scene_i, full_content, resp) IN
        /\ sceneCall' = [scene_index |-> scene_i, n |-> num_key_scenes, outcome |-> out]
        /\ llmCalls' = IF out.called THEN llmCalls + 1 ELSE llmCalls
        /\ failedAt' = IF resp.raises \/ out.raised THEN scene_i ELSE failedAt
        /\ IF out.raised
           THEN /\ spc' = "raised"
                /\ UNCHANGED <<scene_i, written_scenes, full_content, draft, sceneOrder>>
           ELSE LET scenes == Append(written_scenes,
                                     [scene_number |-> scene_i + 1, content |-> out.value])
                    texts == Append(full_content, out.value)
                IN  /\ written_scenes' = scenes
                    /\ full_content' = texts
                    /\ sceneOrder' = Append(sceneOrder, scene_i)
                    /\ scene_i' = scene_i + 1
                    /\ IF scene_i + 1 < num_scenes
                       THEN /\ spc' = "writing"
                            /\ UNCHANGED draft
                       ELSE /\ spc' = "returned"
                            /\ draft' = StoryDraft(scenes, texts)
    /\ UNCHANGED <<num_key_scenes, target_length, num_scenes>>
    /\ UNCHANGED nonScribeVars

NextScribe == WriteSceneCall \/ WriteDraftCall \/ WriteDraftScene

SpecScribe == Init /\ [][NextScribe]_vars

\* ---------------------------------------------- specification of the architect
RefineOutline ==
    /\ apc = "idle"
    /\ \E o \in Outlines, f \in Feedbacks, resp \in PlanResponses :
        LET out == refine_outline(o, f, resp) IN
        /\ arch_outline' = o
        /\ feedback' = f
        /\ archLLM' = resp
        /\ IF out.raised
           THEN /\ apc' = "raised"
                /\ UNCHANGED refined
           ELSE /\ apc' = "returned"
                /\ refined' = out.value
    /\ UNCHANGED <<editorVars, causalVars, scribeVars, storyVars, otherVars>>

NextArchitect == RefineOutline

SpecArchitect == Init /\ [][NextArchitect]_vars

\* ------------------------------------------- specification of generate_story
\* The real-agent branch.  Step 1: plan_story; its exception ends the request
\* in the handler of generate_story.
StoryPlan ==
    /\ gpc = "idle"
    /\ USE_REAL_AGENTS
    /\ \E p \in Prompts, l \in StoryLengths, resp \in PlanResponses :
        LET out == plan_story(p, resp) IN
        /\ request' = [prompt |-> p, length |-> l]
        /\ planLLM' = resp
        /\ planCalls' = IF out.called THEN planCalls + 1 ELSE planCalls
        /\ IF out.raised
           THEN /\ gpc' = "failed"
                /\ response' = ErrorResponse
                /\ UNCHANGED outline
           ELSE /\ gpc' = "planned"
                /\ outline' = out.value
                /\ UNCHANGED response
    /\ UNCHANGED USE_REAL_AGENTS
    /\ UNCHANGED <<editorVars, causalVars, scribeVars, architectVars, otherVars>>

\* The mock branch: no agent is called, the fixed mock story is the response.
StoryMock ==
    /\ gpc = "idle"
    /\ ~USE_REAL_AGENTS
    /\ \E p \in Prompts, l \in StoryLengths :
        request' = [prompt |-> p, length |-> l]
    /\ gpc' = "responded"
    /\ response' = MockResponse
    /\ UNCHANGED <<USE_REAL_AGENTS, outline, planCalls, planLLM>>
    /\ UNCHANGED <<editorVars, causalVars, scribeVars, architectVars, otherVars>>

\* Step 2: "scribe.write_draft(outline.dict(), request.length)"; its scenes
\* are written by WriteDraftScene.
StoryWriteDraft ==
    /\ gpc = "planned"
    /\ WriteDraftCallWith(outline.key_scenes, request.length)

\* An exception of write_draft ends the request in the handler.
StoryDraftFailed ==
    /\ gpc = "planned"
    /\ spc = "raised"
    /\ gpc' = "failed"
    /\ response' = ErrorResponse
    /\ UNCHANGED <<USE_REAL_AGENTS, request, outline, planCalls, planLLM>>
    /\ UNCHANGED <<editorVars, causalVars, scribeVars, architectVars, otherVars>>

\* Step 3: "editor.iterative_improvement(draft.content, outline.dict())"; its
\* passes are LoopEvaluate, LoopRevise and FinalEvaluate.
StoryImprove ==
    /\ gpc = "planned"
    /\ spc = "returned"
    /\ CallWith(ContentText(draft), DefaultMaxIterations)

\* Step 4 and the response: validate_causal_consistency(outline.causal_chains),
\* then StoryResponse(...).
StoryRespond ==
    /\ gpc = "planned"
    /\ pc = "done"
    /\ vpc = "idle"
    /\ story_events' = outline.causal_chains
    /\ IF ValidationPropagates(outline.causal_chains)
       THEN /\ vpc' = "raised"
            /\ gpc' = "failed"
            /\ response' = ErrorResponse
            /\ UNCHANGED causal_check
       ELSE LET check == validate_causal_consistency(outline.causal_chains) IN
            /\ vpc' = "done"
            /\ causal_check' = check
            /\ gpc' = "responded"
            /\ response' = StoryResponse(result.content, result.metrics, check)
    /\ UNCHANGED <<USE_REAL_AGENTS, request, outline, planCalls, planLLM>>
    /\ UNCHANGED <<editorVars, scribeVars, architectVars, otherVars>>

NextStory ==
    \/ StoryPlan
    \/ StoryMock
    \/ StoryWriteDraft
    \/ WriteDraftScene
    \/ StoryDraftFailed
    \/ StoryImprove
    \/ LoopEvaluate
    \/ LoopRevise
    \/ FinalEvaluate
    \/ StoryRespond

SpecStory == Init /\ [][NextStory]_vars

\* ------------------------------------ specification of propagate_causality
\* The caller builds a story bible of its own.
BuildBible ==
    /\ Len(held) - bibleCalls < MaxBibles
    /\ \E kind \in BibleKinds :
        LET h1 == IF kind = "empty" THEN heap
                  ELSE IF kind = "lists" THEN heap \o << <<>>, <<>> >>
                  ELSE Append(heap, <<PlannedEvent>>)
            bible == IF kind = "empty" THEN NoBible
                     ELSE IF kind = "lists"
                     THEN [events |-> Len(heap) + 1, relationships |-> Len(heap) + 2]
                     ELSE [events |-> Len(heap) + 1, relationships |-> NoRef]
        IN  /\ heap' = h1
            /\ held' = Append(held, bible)
    /\ UNCHANGED <<bpc, bibleCalls, passed, before_events, before_rel, returned_bible>>
    /\ UNCHANGED <<editorVars, causalVars, scribeVars, architectVars, storyVars, idVars>>

\* A call of propagate_causality on a bible the caller holds: one it built or
\* one an earlier call returned.
PropagateCausality ==
    /\ bibleCalls < MaxCalls
    /\ \E b \in DOMAIN held, new_event \in NewEvents :
        LET out == propagate_causality(heap, held[b], new_event, bibleCalls + 1) IN
        /\ passed' = held[b]
        /\ before_events' = ListOf(heap, held[b].events)
        /\ before_rel' = ListOf(heap, held[b].relationships)
        /\ heap' = out.heap
        /\ returned_bible' = out.bible
        /\ held' = Append(held, out.bible)
    /\ bibleCalls' = bibleCalls + 1
    /\ bpc' = "returned"
    /\ UNCHANGED <<editorVars, causalVars, scribeVars, architectVars, storyVars, idVars>>

NextBible == BuildBible \/ PropagateCausality

SpecBible == Init /\ [][NextBible]_vars

\* ------------------------------------------------- specification of story_id
\* Time passes.
Tick ==
    /\ clock < MaxClock
    /\ clock' = clock + 1
    /\ UNCHANGED issued
    /\ UNCHANGED <<editorVars, causalVars, scribeVars, architectVars, storyVars, bibleVars>>

\* generate_story builds the response of request r: its story_id is made from
\* the clock alone, on either path.
RespondWithId(r) ==
    /\ issued[r] = NoStoryId
    /\ issued' = [issued EXCEPT ![r] = story_id(USE_REAL_AGENTS, clock)]
    /\ UNCHANGED clock
    /\ UNCHANGED <<editorVars, causalVars, scribeVars, architectVars, storyVars, bibleVars>>

NextIds == Tick \/ \E r \in Requests : RespondWithId(r)

SpecIds == Init /\ [][NextIds]_vars

\* ======================================================================
\* Properties of the improvement loop (checked under Spec / FairSpec)
\* ======================================================================
AllBelow == \A i \in DOMAIN scores : scores[i] < quality_threshold

\* C1: iterative_improvement terminates for every max_iterations >= 0 and
\* every behaviour of the generator; when every in-loop evaluation scores
\* below quality_threshold the loop has made exactly max_iterations evaluate
\* passes when it returns.
C1_TerminatesAfterMaxPasses ==
    /\ <>(pc = "done")
    /\ [](pc = "done" /\ AllBelow => Len(scores) = max_iterations)

C1_Witness ==
    /\ pc = "done"
    /\ AllBelow
    /\ max_iterations >= 2
    /\ Len(scores) = max_iterations

\* C2: if the first evaluation meets the threshold (a score equal to it
\* included), revise_draft is never called and the returned content is the
\* draft_content passed in.
C2_FirstPassAccepted ==
    (Len(scores) >= 1 /\ scores[1] >= quality_threshold) =>
        /\ reviseCalls = 0
        /\ current_content = draft_content
        /\ pc \in {"final", "done"}
        /\ (pc = "done" => result.content = draft_content)

C2_Witness ==
    /\ pc = "done"
    /\ max_iterations >= 1
    /\ scores = <<quality_threshold>>
    /\ reviseCalls = 0
    /\ result.content = draft_content

\* C3 as stated: a below-threshold evaluation on the last allowed pass is not
\* followed by a revision, so a run makes at most max_iterations - 1 calls of
\* revise_draft.
C3_NoRevisionOnLastPass ==
    /\ (pc = "revising" => iteration < max_iterations - 1)
    /\ (pc # "idle" /\ max_iterations >= 1 => reviseCalls <= max_iterations - 1)

\* C3 amended: every below-threshold pass, the last allowed one included, is
\* followed by a revision; a run makes at most max_iterations calls of
\* revise_draft, and exactly max_iterations when every pass scored below the
\* threshold.
C3_RevisionOnEveryFailedPass ==
    /\ reviseCalls <= max_iterations
    /\ (pc = "revising" => iteration <= max_iterations - 1)
    /\ (pc \in {"final", "done"} /\ AllBelow => reviseCalls = max_iterations)

C3_Witness ==
    /\ pc = "done"
    /\ AllBelow
    /\ max_iterations >= 1
    /\ reviseCalls = max_iterations
    /\ iteration = max_iterations
    /\ result.content # draft_content

\* C4: the returned metrics are the value of an evaluate_draft call made on
\* the returned content, and no revise_draft call came after that call.
C4_MetricsOfReturnedContent ==
    pc = "done" =>
        /\ result.metrics = lastEval.value
        /\ lastEval.content = result.content
        /\ ~revisedSinceEval

C4_Witness ==
    /\ pc = "done"
    /\ reviseCalls >= 1
    /\ result.content # draft_content
    /\ result.metrics # metrics
    /\ result.metrics = lastEval.value

FirstMetAt(k) ==
    /\ Len(scores) >= k + 1
    /\ scores[k + 1] >= quality_threshold
    /\ \A i \in 1 .. k : scores[i] < quality_threshold

\* C5: if passes 0..k-1 score below the threshold and pass k meets it, the
\* run makes exactly k revisions, leaves the loop with iteration = k and
\* returns the text the k-th revision produced (the draft itself for k = 0).
C5_AcceptedAfterKRevisions ==
    \A k \in 0 .. max_iterations :
        (pc = "done" /\ FirstMetAt(k)) =>
            /\ Len(scores) = k + 1
            /\ reviseCalls = k
            /\ iteration = k
            /\ result.content =
                   IF k = 0 THEN draft_content
                   ELSE IF reviseLLM.raises THEN lastRevise.content
                   ELSE reviseLLM.text

C5_Witness ==
    /\ pc = "done"
    /\ scores = <<60, 90>>
    /\ reviseCalls = 1
    /\ iteration = 1
    /\ ~reviseLLM.raises
    /\ result.content = reviseLLM.text
    /\ result.content # draft_content

GeneratorFailed(resp) ==
    resp.raises \/ ~resp.json_ok \/ ~(MetricKeys \subseteq resp.keys)

\* C6: evaluate_draft never raises to its caller; when the generator call
\* fails or its output does not parse into QualityMetrics the value is the
\* fixed fallback: six sub-scores 0.5, overall_score 0.5,
\* issues_found ["Evaluation failed"], suggestions ["Manual review required"].
C6_EvaluateFallback ==
    /\ pc # "error"
    /\ (evalCalls > 0 /\ GeneratorFailed(evalLLM)) =>
           lastEval.value =
               [coherence_score |-> 50, engagement_score |-> 50,
                character_consistency |-> 50, pacing_score |-> 50,
                language_quality |-> 50, causal_integrity |-> 50,
                overall_score |-> 50,
                issues_found |-> <<"Evaluation failed">>,
                suggestions |-> <<"Manual review required">>]

C6_Witness ==
    /\ pc = "done"
    /\ evalLLM = MissingField
    /\ result.metrics.overall_score = 50
    /\ result.metrics.issues_found = <<"Evaluation failed">>

\* C7: when the generator fails during revise_draft, revise_draft does not
\* raise and returns the draft it was given: the current draft of the loop is
\* the draft before that revision and the loop goes on.
C7_FailedRevisionKeepsDraft ==
    (reviseCalls > 0 /\ reviseLLM.raises) =>
        /\ pc \in {"evaluating", "revising", "final", "done"}
        /\ lastRevise.value = lastRevise.content
        /\ current_content = lastRevise.content

C7_Witness ==
    /\ pc = "evaluating"
    /\ reviseCalls > 0
    /\ reviseLLM.raises
    /\ iteration = reviseCalls
    /\ current_content = lastRevise.content

\* ======================================================================
\* Properties of causal validation (checked under SpecCausal)
\* ======================================================================
AllLinks(events) == \A i \in DOMAIN events : events[i].kind = "dict"

KnownIds(events) == {events[i].id : i \in DOMAIN events}

\* a depends on b: some link with id a lists b among its causes
DependsOn(events, a, b) ==
    \E i \in DOMAIN events :
        /\ events[i].id = a
        /\ \E j \in DOMAIN events[i].causes : events[i].causes[j] = b

HasCycle(events) ==
    \E p \in SeqsUpTo(KnownIds(events), Cardinality(KnownIds(events))) :
        /\ p # <<>>
        /\ \A i \in 1 .. Len(p) - 1 : DependsOn(events, p[i], p[i + 1])
        /\ DependsOn(events, p[Len(p)], p[1])

DanglingRefs(events) ==
    UNION {{<<i, j>> : j \in {k \in DOMAIN events[i].causes :
                                  events[i].causes[k] \notin KnownIds(events)}} :
           i \in DOMAIN events}

IssuesWith(res, msg) == {i \in DOMAIN res.issues : res.issues[i].msg = msg}

\* C8 as stated: a list of links whose dependency graph has a directed cycle
\* is reported inconsistent, with the issue "Circular causal dependencies
\* detected".
C8_CycleReported ==
    (vpc = "done" /\ AllLinks(story_events) /\ HasCycle(story_events)) =>
        /\ ~causal_check.is_consistent
        /\ IssuesWith(causal_check, CircularDependencies) # {}

\* C9 as stated: the result holds exactly one "Inconsistent causality" issue
\* for each dependency reference that matches no link id of the list.
C9_OneIssuePerDanglingReference ==
    (vpc = "done" /\ AllLinks(story_events)) =>
        Cardinality(IssuesWith(causal_check, InconsistentCausality))
            = Cardinality(DanglingRefs(story_events))

Reverse(q) == [i \in DOMAIN q |-> q[Len(q) + 1 - i]]

CompletesNormally(events) == \A i \in DOMAIN events : ~EntryRaises(events[i])

\* C10: on every input that validates without an internal exception the
\* confidence_score is max(0, 1 - 0.1 * n) for the n returned issues (in
\* tenths: max(0, 10 - n)); it lies in [0,1], does not depend on the order of
\* the links, and the score expression is non-increasing in n and 0 from
\* n = 10 on.
C10_ConfidenceScore ==
    /\ (vpc = "done" /\ CompletesNormally(story_events)) =>
           LET n == Len(causal_check.issues) IN
           /\ causal_check.confidence_score = (IF n >= 10 THEN 0 ELSE 10 - n)
           /\ causal_check.confidence_score \in 0 .. 10
           /\ validate_causal_consistency(Reverse(story_events)).confidence_score
                  = causal_check.confidence_score
    /\ \A n \in 0 .. MaxIssues :
           /\ ConfidenceScore(n) = (IF n >= 10 THEN 0 ELSE 10 - n)
           /\ ConfidenceScore(n) \in 0 .. 10
           /\ (n > 0 => ConfidenceScore(n) <= ConfidenceScore(n - 1))

C10_Witness ==
    /\ vpc = "done"
    /\ Len(story_events) = MaxEvents
    /\ CompletesNormally(story_events)
    /\ \E i \in DOMAIN story_events : Len(story_events[i].causes) > 0
    /\ story_events # Reverse(story_events)
    /\ causal_check.confidence_score = 10

\* C11: in every returned result, on the normal path and on the failure path,
\* is_consistent is true exactly when the issues list is empty.
C11_ConsistentIffNoIssues ==
    vpc = "done" => (causal_check.is_consistent <=> Len(causal_check.issues) = 0)

C11_Witness ==
    /\ vpc = "done"
    /\ ~CompletesNormally(story_events)
    /\ ~causal_check.is_consistent
    /\ Len(causal_check.issues) = 1

\* C12: an acyclic list of links whose every dependency names the id of a link
\* of the list validates as is_consistent = true, no issues, confidence 1.0.
C12_WellFormedIsConsistent ==
    (/\ vpc = "done"
     /\ AllLinks(story_events)
     /\ ~HasCycle(story_events)
     /\ DanglingRefs(story_events) = {}) =>
        /\ causal_check.is_consistent
        /\ causal_check.issues = <<>>
        /\ causal_check.confidence_score = 10

C12_Witness ==
    /\ vpc = "done"
    /\ story_events =
           <<[kind |-> "dict", id |-> "e1", has_causes |-> TRUE, causes |-> <<>>,
              mentions |-> {}],
             [kind |-> "dict", id |-> "e2", has_causes |-> TRUE, causes |-> <<"e1">>,
              mentions |-> {}]>>
    /\ causal_check.is_consistent
    /\ causal_check.confidence_score = 10

\* C13: validate_causal_consistency never raises to its caller; an exception
\* inside the procedure (an entry that is not a link record) gives
\* is_consistent = false, issues ["Validation failed"], no suggestions,
\* confidence_score 0.
C13_ValidationNeverRaises ==
    /\ vpc # "raised"
    /\ (vpc = "done" /\ ~CompletesNormally(story_events)) =>
           causal_check =
               [is_consistent |-> FALSE,
                issues |-> <<[msg |-> "Validation failed", cause |-> "", effect |-> ""]>>,
                suggestions |-> <<>>,
                confidence_score |-> 0]

C13_Witness ==
    /\ vpc = "done"
    /\ Len(story_events) = MaxEvents
    /\ story_events[1].kind = "dict"
    /\ story_events[MaxEvents].kind = "int"
    /\ causal_check.issues[1].msg = "Validation failed"

\* ======================================================================
\* Properties of the scribe (checked under SpecScribe)
\* ======================================================================
DraftRun == spc \in {"writing", "returned", "raised"}

SceneRun == spc \in {"scene_returned", "scene_raised"}

\* C14: for an outline of N scenes and a target length of T scenes
\* (short_story 15, novella 30, novel 60), a write_draft in which no scene
\* write fails returns exactly min(N, T) scenes, written in ascending order
\* from the outline indices 0, 1, 2, ... without a gap.
C14_DraftHasMinScenes ==
    (spc = "returned" /\ target_length \in {"short_story", "novella", "novel"}) =>
        LET T == IF target_length = "short_story" THEN 15
                 ELSE IF target_length = "novella" THEN 30 ELSE 60
            m == IF num_key_scenes <= T THEN num_key_scenes ELSE T
        IN  /\ draft.returned
            /\ Len(draft.scenes) = m
            /\ Len(draft.content) = m
            /\ sceneOrder = [k \in 1 .. m |-> k - 1]
            /\ \A k \in 1 .. m : draft.scenes[k].scene_number = k

C14_Witness ==
    /\ spc = "returned"
    /\ target_length = "short_story"
    /\ num_key_scenes = 16
    /\ Len(draft.scenes) = 15
    /\ sceneOrder[15] = 14

\* C15 as stated: write_scene fails with an out-of-range error, without a
\* generator call, for every scene_index outside 0 <= scene_index < len(key
\* scenes), every negative index included, and writes only inside that range.
C15_IndexRangeChecked ==
    SceneRun =>
        LET in_range == 0 <= sceneCall.scene_index
                            /\ sceneCall.scene_index < sceneCall.n
        IN  /\ ~in_range =>
                   /\ sceneCall.outcome.raised
                   /\ ~sceneCall.outcome.called
                   /\ llmCalls = 0
            /\ in_range => sceneCall.outcome.called

\* C16: when the write of scene i fails during write_draft, write_draft fails
\* as a whole: no draft is returned, and no scene after i is written.
C16_FailedSceneAbortsDraft ==
    (DraftRun /\ failedAt # -1) =>
        /\ spc = "raised"
        /\ ~draft.returned
        /\ llmCalls = failedAt + 1
        /\ Len(written_scenes) = failedAt
        /\ \A k \in DOMAIN sceneOrder : sceneOrder[k] < failedAt

C16_Witness ==
    /\ spc = "raised"
    /\ failedAt = 2
    /\ Len(written_scenes) = 2
    /\ num_scenes > 3
    /\ ~draft.returned

\* C18 as stated: write_draft with a target_length outside {short_story,
\* novella, novel} is rejected at once: no scene is written and the generator
\* is not called.
C18_UnknownLengthRejected ==
    (DraftRun /\ target_length \notin {"short_story", "novella", "novel"}) =>
        /\ spc = "raised"
        /\ llmCalls = 0
        /\ written_scenes = <<>>

\* ======================================================================
\* Properties of generate_story (checked under SpecStory)
\* ======================================================================
Holds(q, text) == \E i \in DOMAIN q : q[i] = text

\* C17 as stated: a request with an empty prompt is rejected at once as an
\* input error, and no generator call is made for it.
C17_EmptyPromptRejected ==
    (gpc # "idle" /\ request.prompt = "") =>
        /\ gpc = "failed"
        /\ planCalls = 0
        /\ llmCalls = 0
        /\ evalCalls = 0
        /\ reviseCalls = 0

\* C19 as stated: failures of evaluation, revision and causal validation never
\* fail the request, and a failed final evaluation shows as the strings
\* "Evaluation failed" and "Manual review required" inside
\* quality_metrics.issues.
C19_FailureStringsInIssues ==
    /\ (gpc = "failed" => pc = "idle" /\ vpc = "idle")
    /\ (USE_REAL_AGENTS /\ gpc = "responded" /\ GeneratorFailed(evalLLM)) =>
           /\ response.status = 200
           /\ Holds(response.quality_metrics.issues, "Evaluation failed")
           /\ Holds(response.quality_metrics.issues, "Manual review required")

\* C19 amended: failures of evaluation, revision and causal validation never
\* fail the request (only plan_story and write_draft can); a failed final
\* evaluation shows as overall_score 0.5, "Evaluation failed" as the only
\* entry of quality_metrics.issues and "Manual review required" as the only
\* entry of quality_metrics.suggestions; a failed causal validation shows as
\* causal_integrity 0.
C19_RecoveredFailuresInMetrics ==
    /\ (gpc = "failed" => pc = "idle" /\ vpc = "idle")
    /\ (pc = "done" /\ vpc # "idle" => gpc = "responded" /\ response.status = 200)
    /\ (USE_REAL_AGENTS /\ gpc = "responded" /\ GeneratorFailed(evalLLM)) =>
           /\ response.quality_metrics.overall_score = 50
           /\ response.quality_metrics.issues = <<"Evaluation failed">>
           /\ response.quality_metrics.suggestions = <<"Manual review required">>
    /\ (USE_REAL_AGENTS /\ gpc = "responded" /\ ~CompletesNormally(outline.causal_chains)) =>
           response.quality_metrics.causal_integrity = 0

C19_Witness ==
    /\ gpc = "responded"
    /\ response.status = 200
    /\ GeneratorFailed(evalLLM)
    /\ reviseCalls = DefaultMaxIterations
    /\ reviseLLM.raises
    /\ ~CompletesNormally(outline.causal_chains)
    /\ response.quality_metrics.issues = <<"Evaluation failed">>
    /\ response.quality_metrics.causal_integrity = 0

\* ======================================================================
\* Properties of the architect (checked under SpecArchitect)
\* ======================================================================
\* C20 as stated: refine_outline with feedback that does not concern causality
\* returns an outline with the causal_chains of the input outline.
C20_ChainsPreserved ==
    (apc = "returned" /\ ~ConcernsCausality(feedback)) =>
        refined.causal_chains = arch_outline.causal_chains

\* C20 amended: whatever the feedback, the outline refine_outline returns is
\* the one parsed from the generator's output; its causal_chains are those of
\* that output and need not be those of the input outline.
C20_ChainsFromGenerator ==
    apc = "returned" =>
        /\ archLLM.valid
        /\ refined.causal_chains = archLLM.outline.causal_chains
        /\ refined.key_scenes = archLLM.outline.key_scenes

C20_Witness ==
    /\ apc = "returned"
    /\ ~ConcernsCausality(feedback)
    /\ Len(arch_outline.causal_chains) = 2
    /\ refined.causal_chains = <<>>

\* ======================================================================
\* Properties of the metrics handed out (checked under SpecStory and Spec)
\* ======================================================================
InUnitRange(x) == x \in 0 .. 100

MetricsInUnitRange(m) ==
    /\ \A f \in SubScoreFields : InUnitRange(m[f])
    /\ InUnitRange(m.overall_score)

\* C21 as stated: every QualityMetrics returned by evaluate_draft has its six
\* sub-scores and its overall_score within [0,1], and so have the
\* quality_metrics of every generate_story response, on the real-agent and on
\* the mock path.
C21_ScoresInUnitRange ==
    /\ evalCalls > 0 => MetricsInUnitRange(lastEval.value)
    /\ gpc = "responded" =>
           /\ InUnitRange(response.quality_metrics.overall_score)
           /\ InUnitRange(response.quality_metrics.causal_integrity)

SubScoresLeq(a, b) == \A f \in SubScoreFields : a[f] <= b[f]

\* C22 as stated: for any two metrics returned by evaluate_draft (here the
\* last in-loop one and the final one of a run), sub-scores of the first all
\* <= those of the second imply overall_score of the first <= that of the
\* second, so equal sub-scores give equal overall_score.
C22_OverallMonotonicInSubScores ==
    (pc = "done" /\ scores # <<>>) =>
        /\ SubScoresLeq(metrics, result.metrics) =>
               metrics.overall_score <= result.metrics.overall_score
        /\ SubScoresLeq(result.metrics, metrics) =>
               result.metrics.overall_score <= metrics.overall_score

\* C27: a run of iterative_improvement makes at most max_iterations
\* revise_draft calls and exactly (number of loop passes + 1) evaluate_draft
\* calls; with max_iterations = 0 it revises nothing, evaluates once and
\* returns draft_content unchanged with the metrics of that evaluation.
C27_CallCounts ==
    /\ reviseCalls <= max_iterations
    /\ Len(scores) <= max_iterations
    /\ pc = "done" =>
           /\ evalCalls = Len(scores) + 1
           /\ max_iterations = 0 =>
                  /\ reviseCalls = 0
                  /\ evalCalls = 1
                  /\ result.content = draft_content
                  /\ lastEval.content = draft_content
                  /\ result.metrics = lastEval.value

C27_Witness ==
    /\ pc = "done"
    /\ max_iterations = 0
    /\ evalCalls = 1
    /\ result.content = draft_content
    /\ draft_content # NoText

\* C28 as stated: when the loop stopped because an in-loop evaluation met the
\* threshold, the returned metrics have overall_score >= quality_threshold,
\* also for an evaluator whose score for the same draft differs between calls.
C28_AcceptedMetricsMeetThreshold ==
    (pc = "done" /\ scores # <<>> /\ scores[Len(scores)] >= quality_threshold) =>
        result.metrics.overall_score >= quality_threshold

\* ======================================================================
\* Continuity context of the scribe (checked under SpecScribe)
\* ======================================================================
\* C25: during write_draft the continuity context given to the generator for
\* scene i is exactly the texts of scenes i-2 and i-1, in order (one text for
\* i = 1, none for i = 0); no earlier scene text is included.  The text of
\* scene j of a draft is the token j + 1.
C25_ContextIsLastTwoScenes ==
    (DraftRun /\ sceneCall.outcome.called) =>
        LET i == sceneCall.scene_index
            lo == Max(0, i - 2)
            context == sceneCall.outcome.context
        IN  /\ context = [k \in 1 .. (i - lo) |-> lo + k]
            /\ Len(context) <= 2
            /\ \A k \in DOMAIN context : context[k] = full_content[lo + k]

C25_Witness ==
    /\ DraftRun
    /\ sceneCall.outcome.called
    /\ sceneCall.scene_index = 3
    /\ sceneCall.outcome.context = <<2, 3>>
    /\ Len(full_content) = 4

\* ======================================================================
\* Order of the stages of generate_story (checked under SpecStory)
\* ======================================================================
PlanFailed == planCalls > 0 /\ (planLLM.raises \/ ~planLLM.valid)

\* C23: on the real-agent path the stages run in the order plan_story,
\* write_draft, iterative_improvement, validate_causal_consistency, each
\* starting only after the previous one returned; when plan_story or
\* write_draft raises no later stage is invoked and the request fails with
\* status 500.
C23_StagesInOrder ==
    /\ spc # "idle" => (planCalls = 1 /\ ~PlanFailed /\ gpc # "idle")
    /\ pc # "idle" => spc = "returned"
    /\ vpc # "idle" => pc = "done"
    /\ (USE_REAL_AGENTS /\ gpc = "responded") => vpc = "done"
    /\ PlanFailed =>
           /\ gpc = "failed"
           /\ response.status = 500
           /\ spc = "idle" /\ pc = "idle" /\ vpc = "idle"
           /\ llmCalls = 0 /\ evalCalls = 0
    /\ spc = "raised" =>
           /\ gpc \in {"planned", "failed"}
           /\ pc = "idle" /\ vpc = "idle"
           /\ evalCalls = 0 /\ reviseCalls = 0
    /\ gpc = "failed" => response.status = 500

C23_Witness ==
    /\ USE_REAL_AGENTS
    /\ gpc = "responded"
    /\ planCalls = 1
    /\ spc = "returned" /\ llmCalls = MaxStoryScenes
    /\ pc = "done" /\ reviseCalls = DefaultMaxIterations
    /\ vpc = "done"
    /\ response.status = 200

\* ======================================================================
\* Missing-link suggestions (checked under SpecCausal)
\* ======================================================================
\* <<i, a>>: the cause text of link i refers to the effect of another link a
\* of the list, and link i records no dependency on a.
MissingLinks(events) ==
    UNION {{<<i, a>> : a \in {b \in events[i].mentions :
                                 /\ b \in KnownIds(events)
                                 /\ b # events[i].id
                                 /\ \A j \in DOMAIN events[i].causes :
                                        events[i].causes[j] # b}} :
           i \in DOMAIN events}

\* C24 as stated: a link whose cause text refers to an effect of another link
\* without a recorded dependency on it is surfaced as a suggestion "Consider
\* adding causal link: ..." and not as an issue, and suggestions change
\* neither is_consistent nor confidence_score.
C24_MissingLinkSuggested ==
    (vpc = "done" /\ AllLinks(story_events)) =>
        /\ MissingLinks(story_events) # {} =>
               \E i \in DOMAIN causal_check.suggestions :
                   causal_check.suggestions[i].msg = ConsiderAddingLink
        /\ IssuesWith(causal_check, ConsiderAddingLink) = {}
        /\ causal_check.is_consistent <=> Len(causal_check.issues) = 0
        /\ causal_check.confidence_score = ConfidenceScore(Len(causal_check.issues))

\* ======================================================================
\* Properties of propagate_causality (checked under SpecBible)
\* ======================================================================
IsPrefix(p, q) == Len(p) <= Len(q) /\ \A i \in DOMAIN p : q[i] = p[i]

DistinctCausalIds(list) ==
    \A i, j \in DOMAIN list :
        (i # j /\ list[i].causal_id # NoId /\ list[j].causal_id # NoId) =>
            list[i].causal_id # list[j].causal_id

C30_PassedBibleUnchanged ==
    bpc = "returned" =>
        /\ ListOf(heap, passed.events) = before_events
        /\ ListOf(heap, passed.relationships) = before_rel

\* ======================================================================
\* Properties of story_id (checked under SpecIds)
\* ======================================================================
\* C29 as stated: any two distinct generate_story requests, also two answered
\* within the same clock second, receive different story_id values.
C29_StoryIdsDistinct ==
    \A r1, r2 \in Requests :
        (r1 # r2 /\ issued[r1] # NoStoryId /\ issued[r2] # NoStoryId) =>
            issued[r1] # issued[r2]

====
